---- MODULE Spec2Model ----
(***************************************************************************)
(* The idempotent consumer pipeline of the pub/sub log aggregator:        *)
(* DedupProcessor.process_event (aggregator/dedup.py) run by concurrent   *)
(* workers, each on its own SQLAlchemy session, against one store with    *)
(* the tables processed_events, event_stats and audit_logs                *)
(* (aggregator/models.py).                                                *)
(*                                                                         *)
(* The store is modelled by its committed contents plus, per session, the *)
(* uncommitted work of the open transaction.  A process_event call is     *)
(* split at its store round trips (flush, SELECT ... FOR UPDATE, commit), *)
(* which is where other sessions can interleave.  Every round trip can    *)
(* also raise a store failure (connection loss, lock timeout,             *)
(* serialisation abort under isolation_level="SERIALIZABLE").             *)
(*                                                                         *)
(* RedisConsumer (aggregator/consumer.py) is modelled on top of it: the   *)
(* main thread runs start() and the receive loop, the signal handler runs *)
(* in the main thread between any two of its steps, and the threads of    *)
(* the ThreadPoolExecutor take the submitted messages from the executor's *)
(* queue and run _process_message on them.                                *)
(***************************************************************************)
EXTENDS Naturals, Integers, Sequences, FiniteSets, Bags, TLC

\* ---------------------------------------------------------------- bounds
\* Sessions that run concurrently (the pool size of the consumer),
\* process_event calls started by direct callers, store failures raised and
\* messages the bus delivers in one behaviour.
NumWorkers == 2
MaxCalls == 2
MaxFaults == 1
MaxMessages == 3
\* Rows the store holds when the HTTP service is examined.
MaxRows == 3

Workers == 1 .. NumWorkers

\* The store compares topics, event ids and payloads for equality only, so
\* two topics under one event id (two dedup keys) and two payloads cover
\* the cases: equal key, different key, equal and different content.
Topics == {"T1", "T2"}
EventIds == {"E1"}
Payloads == {"p1", "p2"}

NoWorker == 0

\* ------------------------------------------------------------ data model

\* models.Event: the validated in-flight record.  payload stands for the
\* fields that are not part of the dedup key (timestamp, source, payload).
Event == [topic : Topics, event_id : EventIds, payload : Payloads]

\* The dedup key of an event: the pair (topic, event_id).
KeyOf(e) == <<e.topic, e.event_id>>

Keys == Topics \X EventIds

\* A unique index over event_id alone.
DedupKeyEventIdOnly(r) == <<r.event_id>>

\* A unique index that also covers the payload column.
DedupKeyWithPayload(r) == <<r.topic, r.event_id, r.payload>>

\* ProcessedEvent.__table_args__: the columns of uq_topic_event_id.
DedupKey(r) == <<r.topic, r.event_id>>

\* dedup.py: the ProcessedEvent row built from the event.
ProcessedEvent(e) ==
    [topic |-> e.topic, event_id |-> e.event_id, payload |-> e.payload]

\* models.EventStats row id=1 as init_db creates it.
EventStats == [received |-> 0, unique_processed |-> 0, duplicate_dropped |-> 0]

\* models.AuditLog row.
AuditLog(event_topic, event_id, action) ==
    [event_topic |-> event_topic, event_id |-> event_id, action |-> action]

VARIABLES
    rows,      \* committed processed_events, in commit order
    stats,     \* committed event_stats row id=1
    audit,     \* committed audit_logs (a bag of rows)
    lock,      \* holder of the row lock on event_stats id=1, or NoWorker
    pc,        \* per session: position of the call running on it
    ev,        \* per session: the event of the current/last call
    txRow,     \* per session: flushed, uncommitted processed_events rows
    txAudit,   \* per session: added, uncommitted audit_logs rows
    local,     \* per session: the EventStats object loaded under the lock
    outcome,   \* per session: the value the last call returned
    begun,     \* per session: how many calls had returned when this began
    log,       \* history: the returned calls, in order of return
    calls,     \* number of process_event calls started
    faults,    \* number of store failures raised so far
    inserted,  \* history, per session: the running call's INSERT was flushed
    cpc,        \* consumer main thread: position in start/_consume_loop
    running,    \* RedisConsumer.running
    subscribed, \* the pubsub handle is subscribed to the channel
    signalled,  \* history: _signal_handler has run
    cur,        \* the message the receive loop holds, or NoMessage
    queue,      \* the executor's work queue
    delivered,  \* messages pubsub.listen() has yielded
    dispatched, \* messages handed to executor.submit
    finished,   \* messages whose _process_message has returned
    response,   \* the HTTP service: the last response sent
    published   \* the HTTP service: messages published to the channel

\* The consumer's variables.
cvars == <<cpc, running, subscribed, signalled, cur, queue, delivered,
           dispatched, finished>>

\* The store, its sessions and the history of the calls.
dvars == <<rows, stats, audit, lock, pc, ev, txRow, txAudit, local, outcome,
           begun, log, calls, faults, inserted>>

\* The HTTP service's variables.
avars == <<response, published>>

vars == <<rows, stats, audit, lock, pc, ev, txRow, txAudit, local, outcome,
          begun, log, calls, faults, inserted, cpc, running, subscribed,
          signalled, cur, queue, delivered, dispatched, finished, response,
          published>>

\* --------------------------------------------------- the store's behaviour

\* A table without the unique constraint: no INSERT is refused.
NoUniqueViolation(r) == FALSE

\* UniqueConstraint("topic", "event_id"): the INSERT of a row whose key a
\* committed row holds raises IntegrityError.
UniqueViolation(r) ==
    \E i \in 1 .. Len(rows) : DedupKey(rows[i]) = DedupKey(r)

\* An index that checks committed rows only and never waits.
IndexNeverBusy(w, r) == FALSE

\* The unique index also sees uncommitted entries: the INSERT waits while
\* another open transaction holds an uncommitted row with the same key.
IndexBusy(w, r) ==
    \E v \in Workers \ {w} :
        \E i \in 1 .. Len(txRow[v]) : DedupKey(txRow[v][i]) = DedupKey(r)

\* A plain SELECT, without with_for_update(): it never waits.
NoRowLock(w) == TRUE

\* with_for_update(): the SELECT waits while another transaction holds the
\* row lock on the stats row.
LockFree(w) == lock = NoWorker \/ lock = w

\* A store whose commit and rollback leave the row lock with its holder.
LockKept(w) == lock

\* Session.rollback() / commit() release the row lock of the transaction.
Released(w) == IF lock = w THEN NoWorker ELSE lock

\* A store round trip may fail; the number of failures is bounded.
MayFail == faults < MaxFaults

\* ------------------------------------------------------------ dedup.py

\* _update_stats that forgets the unique counter.
update_stats_received_only(s, received, unique) ==
    [s EXCEPT !.received = @ + received]

\* _update_stats(received, unique) on the loaded EventStats object.
update_stats(s, received, unique) ==
    [s EXCEPT !.received = @ + received,
              !.unique_processed = @ + unique]

\* _update_stats_duplicate that forgets the received counter.
update_stats_duplicate_dropped_only(s) ==
    [s EXCEPT !.duplicate_dropped = @ + 1]

\* _update_stats_duplicate: the two increments on the loaded object.
update_stats_duplicate(s) ==
    [s EXCEPT !.received = @ + 1,
              !.duplicate_dropped = @ + 1]

\* _log_audit: db.add(AuditLog(...)) on the session.
log_audit(w, action) ==
    txAudit[w] (+) SetToBag({AuditLog(ev[w].topic, ev[w].event_id, action)})

\* A return that reports success whatever happened.
ReturnedAlwaysOk(w, ok, res) ==
    Append(log, [w |-> w, ev |-> ev[w], ok |-> TRUE, outcome |-> res,
                 begun |-> begun[w]])

\* The pair process_event returns, recorded with the call's event.
Returned(w, ok, res) ==
    Append(log, [w |-> w, ev |-> ev[w], ok |-> ok, outcome |-> res,
                 begun |-> begun[w]])

ErrorOutcome == "Error: store failure"

\* The messages the bus delivers: one valid event, one JSON object whose
\* topic breaks the topic pattern, and one text that json.loads rejects.
Messages ==
    {[json |-> TRUE, topic |-> "T1", event_id |-> "E1", payload |-> "p1"],
     [json |-> TRUE, topic |-> "bad topic", event_id |-> "E1",
      payload |-> "p1"],
     [json |-> FALSE, topic |-> "", event_id |-> "", payload |-> ""]}

NoMessage == [json |-> FALSE, topic |-> "none", event_id |-> "",
              payload |-> ""]

\* json.loads(data) returns (does not raise JSONDecodeError).
json_loads(m) == m.json

\* A validation that lets every decoded record through.
AcceptsAnything(m) == TRUE

\* Event(**event_data) returns (no ValidationError): the topic matches
\* ^[a-zA-Z0-9._-]+$ and the event_id is not blank.
Validates(m) == m.topic \in Topics /\ m.event_id \in EventIds

\* The Event built from a decoded message.
EventOf(m) ==
    [topic |-> m.topic, event_id |-> m.event_id, payload |-> m.payload]

\* What a session holds between calls: no event, no result.
NoEvent == [topic |-> "", event_id |-> "", payload |-> ""]

\* No request has been answered yet.
NoResponse == [op |-> "none"]

Init ==
    /\ rows = << >>
    /\ stats = EventStats
    /\ audit = EmptyBag
    /\ lock = NoWorker
    /\ pc = [w \in Workers |-> "idle"]
    /\ ev = [w \in Workers |-> NoEvent]
    /\ txRow = [w \in Workers |-> << >>]
    /\ txAudit = [w \in Workers |-> EmptyBag]
    /\ local = [w \in Workers |-> EventStats]
    /\ outcome = [w \in Workers |-> "none"]
    /\ begun = [w \in Workers |-> 0]
    /\ log = << >>
    /\ calls = 0
    /\ faults = 0
    /\ inserted = [w \in Workers |-> FALSE]
    /\ cpc = "init"
    /\ running = FALSE
    /\ subscribed = FALSE
    /\ signalled = FALSE
    /\ cur = NoMessage
    /\ queue = << >>
    /\ delivered = 0
    /\ dispatched = 0
    /\ finished = 0
    /\ response = NoResponse
    /\ published = << >>

\* A commit that leaves the work pending in the session (a flush only).
CommitDeferred(w, added) ==
    UNCHANGED <<rows, stats, audit, lock, txRow, local>>

\* Session.commit(): the transaction's flushed row, the counters written
\* under the row lock and the audit rows `added` become committed; the lock
\* is released and the loaded objects expire.
SessionCommit(w, added) ==
    /\ rows' = rows \o txRow[w]
    /\ stats' = IF lock = w THEN local[w] ELSE stats
    /\ audit' = audit (+) added
    /\ lock' = Released(w)
    /\ txRow' = [txRow EXCEPT ![w] = << >>]
    /\ local' = [local EXCEPT ![w] = EventStats]

\* A rollback that leaves the transaction's work pending in the session.
RollbackKeepsWork(w) ==
    UNCHANGED <<lock, txRow, local, rows, stats, audit>>

\* Session.rollback() / close(): the transaction's uncommitted work is
\* dropped and its lock released; the committed tables are untouched.
SessionRollback(w) ==
    /\ lock' = Released(w)
    /\ txRow' = [txRow EXCEPT ![w] = << >>]
    /\ local' = [local EXCEPT ![w] = EventStats]
    /\ UNCHANGED <<rows, stats, audit>>

\* Free sessions that hold the same pending work are interchangeable: the
\* event goes to the lowest-numbered of them.
FirstFree(w) ==
    \A v \in Workers : (v < w /\ pc[v] = "idle") => txAudit[v] # txAudit[w]

\* process_event lines 15-27: build the row and db.add it.
process_event(w, e) ==
    /\ pc[w] = "idle"
    /\ FirstFree(w)
    /\ calls < MaxCalls
    /\ pc' = [pc EXCEPT ![w] = "flush"]
    /\ ev' = [ev EXCEPT ![w] = e]
    /\ begun' = [begun EXCEPT ![w] = Len(log)]
    /\ calls' = calls + 1
    /\ UNCHANGED <<rows, stats, audit, lock, txRow, txAudit, local, outcome,
                   log, faults>>
    /\ UNCHANGED cvars
    /\ UNCHANGED inserted
    /\ UNCHANGED avars

\* line 30, db.flush() succeeds: the row is inserted, uncommitted.
flush_ok(w) ==
    /\ pc[w] = "flush"
    /\ ~UniqueViolation(ProcessedEvent(ev[w]))
    /\ ~IndexBusy(w, ProcessedEvent(ev[w]))
    /\ txRow' = [txRow EXCEPT ![w] = <<ProcessedEvent(ev[w])>>]
    /\ pc' = [pc EXCEPT ![w] = "stats"]
    /\ UNCHANGED <<rows, stats, audit, lock, ev, txAudit, local, outcome,
                   begun, log, calls, faults>>
    /\ UNCHANGED cvars
    /\ inserted' = [inserted EXCEPT ![w] = TRUE]
    /\ UNCHANGED avars

\* line 30 raises IntegrityError; lines 47-49: db.rollback().
flush_integrity(w) ==
    /\ pc[w] = "flush"
    /\ UniqueViolation(ProcessedEvent(ev[w]))
    /\ SessionRollback(w)
    /\ txAudit' = [txAudit EXCEPT ![w] = EmptyBag]
    /\ pc' = [pc EXCEPT ![w] = "dup_stats"]
    /\ UNCHANGED <<ev, outcome, begun, log, calls, faults>>
    /\ UNCHANGED cvars
    /\ UNCHANGED inserted
    /\ UNCHANGED avars

\* lines 33-40: _update_stats(received=1, unique=1) takes the row lock and
\* increments the loaded object; _log_audit("processed").
stats_ok(w) ==
    /\ pc[w] = "stats"
    /\ LockFree(w)
    /\ lock' = w
    /\ local' = [local EXCEPT ![w] = update_stats(stats, 1, 1)]
    /\ txAudit' = [txAudit EXCEPT ![w] = log_audit(w, "processed")]
    /\ pc' = [pc EXCEPT ![w] = "commit"]
    /\ UNCHANGED <<rows, stats, audit, ev, txRow, outcome, begun, log, calls,
                   faults>>
    /\ UNCHANGED cvars
    /\ UNCHANGED inserted
    /\ UNCHANGED avars

\* line 42: db.commit() writes the row, the counters and the audit rows and
\* releases the lock; line 45 returns (True, "processed").
commit_ok(w) ==
    /\ pc[w] = "commit"
    /\ SessionCommit(w, txAudit[w])
    /\ txAudit' = [txAudit EXCEPT ![w] = EmptyBag]
    /\ outcome' = [outcome EXCEPT ![w] = "processed"]
    /\ log' = Returned(w, TRUE, "processed")
    /\ pc' = [pc EXCEPT ![w] = "returned"]
    /\ UNCHANGED <<ev, begun, calls, faults>>
    /\ UNCHANGED cvars
    /\ inserted' = [inserted EXCEPT ![w] = FALSE]
    /\ UNCHANGED avars

\* An error path that keeps the flushed insert (commits where the code
\* rolls back): the failed presentation uses up its key.
store_error_keeps_insert(w) ==
    /\ pc[w] \in {"flush", "stats", "commit"}
    /\ MayFail
    /\ faults' = faults + 1
    /\ rows' = rows \o txRow[w]
    /\ lock' = Released(w)
    /\ txRow' = [txRow EXCEPT ![w] = << >>]
    /\ local' = [local EXCEPT ![w] = EventStats]
    /\ txAudit' = [txAudit EXCEPT ![w] = EmptyBag]
    /\ pc' = [pc EXCEPT ![w] = "error"]
    /\ UNCHANGED <<stats, audit, ev, outcome, begun, log, calls>>
    /\ UNCHANGED cvars
    /\ UNCHANGED inserted
    /\ UNCHANGED avars

\* An error path that rolls back and attempts the insert again.
store_error_retries(w) ==
    /\ pc[w] \in {"flush", "stats", "commit"}
    /\ MayFail
    /\ faults' = faults + 1
    /\ SessionRollback(w)
    /\ txAudit' = [txAudit EXCEPT ![w] = EmptyBag]
    /\ pc' = [pc EXCEPT ![w] = "flush"]
    /\ UNCHANGED <<ev, outcome, begun, log, calls>>
    /\ UNCHANGED cvars
    /\ UNCHANGED inserted
    /\ UNCHANGED avars

\* flush, _update_stats or commit raises anything that is not an
\* IntegrityError; lines 65-66: db.rollback().
store_error(w) ==
    /\ pc[w] \in {"flush", "stats", "commit"}
    /\ MayFail
    /\ faults' = faults + 1
    /\ SessionRollback(w)
    /\ txAudit' = [txAudit EXCEPT ![w] = EmptyBag]
    /\ pc' = [pc EXCEPT ![w] = "error"]
    /\ UNCHANGED <<ev, outcome, begun, log, calls>>
    /\ UNCHANGED cvars
    /\ UNCHANGED inserted
    /\ UNCHANGED avars

\* An error path that also counts the failed event as received.
error_audit_counts_received(w) ==
    /\ pc[w] = "error"
    /\ rows' = rows \o txRow[w]
    /\ stats' = [stats EXCEPT !.received = @ + 1]
    /\ audit' = audit (+) log_audit(w, "error")
    /\ lock' = Released(w)
    /\ txRow' = [txRow EXCEPT ![w] = << >>]
    /\ local' = [local EXCEPT ![w] = EventStats]
    /\ txAudit' = [txAudit EXCEPT ![w] = EmptyBag]
    /\ outcome' = [outcome EXCEPT ![w] = ErrorOutcome]
    /\ log' = Returned(w, FALSE, ErrorOutcome)
    /\ pc' = [pc EXCEPT ![w] = "returned"]
    /\ UNCHANGED <<ev, begun, calls, faults>>
    /\ UNCHANGED cvars
    /\ inserted' = [inserted EXCEPT ![w] = FALSE]
    /\ UNCHANGED avars

\* lines 69-80: _log_audit("error"), db.commit(), return (False, "Error: ..").
error_audit_ok(w) ==
    /\ pc[w] = "error"
    /\ SessionCommit(w, log_audit(w, "error"))
    /\ txAudit' = [txAudit EXCEPT ![w] = EmptyBag]
    /\ outcome' = [outcome EXCEPT ![w] = ErrorOutcome]
    /\ log' = Returned(w, FALSE, ErrorOutcome)
    /\ pc' = [pc EXCEPT ![w] = "returned"]
    /\ UNCHANGED <<ev, begun, calls, faults>>
    /\ UNCHANGED cvars
    /\ inserted' = [inserted EXCEPT ![w] = FALSE]
    /\ UNCHANGED avars

\* A failing error-audit write that propagates instead of being swallowed:
\* the call raises and returns no pair.
error_audit_fail_raises(w) ==
    /\ pc[w] = "error"
    /\ SessionRollback(w)
    /\ txAudit' = [txAudit EXCEPT ![w] = EmptyBag]
    /\ pc' = [pc EXCEPT ![w] = "idle"]
    /\ ev' = [ev EXCEPT ![w] = NoEvent]
    /\ outcome' = [outcome EXCEPT ![w] = "none"]
    /\ begun' = [begun EXCEPT ![w] = 0]
    /\ UNCHANGED <<log, calls, faults>>
    /\ UNCHANGED cvars
    /\ inserted' = [inserted EXCEPT ![w] = FALSE]
    /\ UNCHANGED avars

\* lines 76-80: the store that failed the call fails the commit of the error
\* audit row as well; the bare except swallows it and the call still returns
\* (False, "Error: ..").
error_audit_fail(w) ==
    /\ pc[w] = "error"
    /\ SessionRollback(w)
    /\ txAudit' = [txAudit EXCEPT ![w] = EmptyBag]
    /\ outcome' = [outcome EXCEPT ![w] = ErrorOutcome]
    /\ log' = Returned(w, FALSE, ErrorOutcome)
    /\ pc' = [pc EXCEPT ![w] = "returned"]
    /\ UNCHANGED <<ev, begun, calls, faults>>
    /\ UNCHANGED cvars
    /\ inserted' = [inserted EXCEPT ![w] = FALSE]
    /\ UNCHANGED avars

\* lines 91-95: _update_stats_duplicate takes the row lock in the
\* transaction begun after the rollback and increments the loaded object.
dup_stats_ok(w) ==
    /\ pc[w] = "dup_stats"
    /\ LockFree(w)
    /\ lock' = w
    /\ local' = [local EXCEPT ![w] = update_stats_duplicate(stats)]
    /\ pc' = [pc EXCEPT ![w] = "dup_commit"]
    /\ UNCHANGED <<rows, stats, audit, ev, txRow, txAudit, outcome, begun,
                   log, calls, faults>>
    /\ UNCHANGED cvars
    /\ UNCHANGED inserted
    /\ UNCHANGED avars

\* A duplicate that overwrites the stored row with the later event (an
\* upsert) while committing its counters.
dup_commit_upsert(w) ==
    /\ pc[w] = "dup_commit"
    /\ rows' = [i \in 1 .. Len(rows) |->
                   IF KeyOf(rows[i]) = KeyOf(ev[w])
                   THEN ProcessedEvent(ev[w]) ELSE rows[i]]
    /\ stats' = IF lock = w THEN local[w] ELSE stats
    /\ lock' = Released(w)
    /\ local' = [local EXCEPT ![w] = EventStats]
    /\ txAudit' = [txAudit EXCEPT ![w] =
                       SetToBag({AuditLog(ev[w].topic, ev[w].event_id,
                                          "duplicate")})]
    /\ outcome' = [outcome EXCEPT ![w] = "duplicate"]
    /\ log' = Returned(w, TRUE, "duplicate")
    /\ pc' = [pc EXCEPT ![w] = "returned"]
    /\ UNCHANGED <<audit, txRow, ev, begun, calls, faults>>
    /\ UNCHANGED cvars
    /\ inserted' = [inserted EXCEPT ![w] = FALSE]
    /\ UNCHANGED avars

\* line 97: db.commit() writes the counters; lines 53-63: _log_audit(
\* "duplicate") adds the audit row to the session and the call returns
\* (True, "duplicate") without committing it.
dup_commit_ok(w) ==
    /\ pc[w] = "dup_commit"
    /\ SessionCommit(w, txAudit[w])
    /\ txAudit' = [txAudit EXCEPT ![w] =
                       SetToBag({AuditLog(ev[w].topic, ev[w].event_id,
                                          "duplicate")})]
    /\ outcome' = [outcome EXCEPT ![w] = "duplicate"]
    /\ log' = Returned(w, TRUE, "duplicate")
    /\ pc' = [pc EXCEPT ![w] = "returned"]
    /\ UNCHANGED <<ev, begun, calls, faults>>
    /\ UNCHANGED cvars
    /\ inserted' = [inserted EXCEPT ![w] = FALSE]
    /\ UNCHANGED avars

\* lines 98-100: the SELECT or the commit of _update_stats_duplicate raises;
\* it rolls back and logs, and process_event goes on to lines 53-63.
dup_stats_fail(w) ==
    /\ pc[w] \in {"dup_stats", "dup_commit"}
    /\ MayFail
    /\ faults' = faults + 1
    /\ SessionRollback(w)
    /\ txAudit' = [txAudit EXCEPT ![w] =
                       SetToBag({AuditLog(ev[w].topic, ev[w].event_id,
                                          "duplicate")})]
    /\ outcome' = [outcome EXCEPT ![w] = "duplicate"]
    /\ log' = Returned(w, TRUE, "duplicate")
    /\ pc' = [pc EXCEPT ![w] = "returned"]
    /\ UNCHANGED <<ev, begun, calls>>
    /\ UNCHANGED cvars
    /\ inserted' = [inserted EXCEPT ![w] = FALSE]
    /\ UNCHANGED avars

\* The caller has taken the returned pair: the session holds no call.
Handed(w) ==
    /\ ev' = [ev EXCEPT ![w] = NoEvent]
    /\ outcome' = [outcome EXCEPT ![w] = "none"]
    /\ begun' = [begun EXCEPT ![w] = 0]
    /\ inserted' = [inserted EXCEPT ![w] = FALSE]

\* The caller commits the session after the call: get_db_context's normal
\* exit (database.py 40-41) or the tests' test_db.commit().
caller_commit(w) ==
    /\ pc[w] = "returned"
    /\ SessionCommit(w, txAudit[w])
    /\ txAudit' = [txAudit EXCEPT ![w] = EmptyBag]
    /\ pc' = [pc EXCEPT ![w] = "idle"]
    /\ Handed(w)
    /\ UNCHANGED <<log, calls, faults>>
    /\ UNCHANGED cvars
    /\ UNCHANGED avars

\* The caller closes the session without committing
\* (tests/test_concurrency.py worker_process_event): pending work is dropped.
caller_close(w) ==
    /\ pc[w] = "returned"
    /\ SessionRollback(w)
    /\ txAudit' = [txAudit EXCEPT ![w] = EmptyBag]
    /\ pc' = [pc EXCEPT ![w] = "idle"]
    /\ Handed(w)
    /\ UNCHANGED <<log, calls, faults>>
    /\ UNCHANGED cvars
    /\ UNCHANGED avars

\* The caller presents the next event through the same processor and
\* session (tests/test_dedup.py test_multiple_duplicates): the pending
\* audit row stays in the session.  With nothing pending, keeping the
\* session is the same step as caller_commit.
caller_keep(w) ==
    /\ pc[w] = "returned"
    /\ txAudit[w] # EmptyBag
    /\ pc' = [pc EXCEPT ![w] = "idle"]
    /\ Handed(w)
    /\ UNCHANGED <<rows, stats, audit, lock, txRow, txAudit, local, log,
                   calls, faults>>
    /\ UNCHANGED cvars
    /\ UNCHANGED avars

\* ------------------------------------------------------------ RedisConsumer

\* The positions of the main thread at which it is inside _consume_loop.
InLoop == {"listen", "check", "submit"}

\* start() line 28: self.running = True.
start_running ==
    /\ cpc = "init"
    /\ running' = TRUE
    /\ cpc' = "subscribe"
    /\ UNCHANGED <<subscribed, signalled, cur, queue, delivered, dispatched,
                   finished>>
    /\ UNCHANGED dvars
    /\ UNCHANGED avars

\* start() lines 30-33: connect, create the pubsub handle, subscribe.
start_subscribe ==
    /\ cpc = "subscribe"
    /\ subscribed' = TRUE
    /\ cpc' = "install"
    /\ UNCHANGED <<running, signalled, cur, queue, delivered, dispatched,
                   finished>>
    /\ UNCHANGED dvars
    /\ UNCHANGED avars

\* start() lines 37-41: install the SIGINT/SIGTERM handlers and enter
\* _consume_loop, which blocks in pubsub.listen().
start_install ==
    /\ cpc = "install"
    /\ cpc' = "listen"
    /\ UNCHANGED <<running, subscribed, signalled, cur, queue, delivered,
                   dispatched, finished>>
    /\ UNCHANGED dvars
    /\ UNCHANGED avars

\* A handler that flips the flag instead of clearing it.
RunningToggledBySignal(r) == ~r

\* _signal_handler line 45: self.running = False.
RunningAfterSignal(r) == FALSE

\* SIGINT or SIGTERM arrives once the handlers are installed; Python runs
\* the handler in the main thread between any two of its steps.
signal_handler ==
    /\ cpc \in InLoop \cup {"cleanup", "shutdown"}
    /\ running' = RunningAfterSignal(running)
    /\ signalled' = TRUE
    /\ UNCHANGED <<cpc, subscribed, cur, queue, delivered, dispatched,
                   finished>>
    /\ UNCHANGED dvars
    /\ UNCHANGED avars

\* _consume_loop line 49: pubsub.listen() yields the next message.
listen(m) ==
    /\ cpc = "listen"
    /\ delivered < MaxMessages
    /\ delivered' = delivered + 1
    /\ cur' = m
    /\ cpc' = "check"
    /\ UNCHANGED <<running, subscribed, signalled, queue, dispatched,
                   finished>>
    /\ UNCHANGED dvars
    /\ UNCHANGED avars

\* _consume_loop lines 55-56: listen() raises (connection lost); the loop
\* is left through the except clause.
listen_error ==
    /\ cpc = "listen"
    /\ cpc' = "cleanup"
    /\ UNCHANGED <<running, subscribed, signalled, cur, queue, delivered,
                   dispatched, finished>>
    /\ UNCHANGED dvars
    /\ UNCHANGED avars

\* _consume_loop lines 50-51: if not self.running: break.
check_running ==
    /\ cpc = "check"
    /\ cpc' = IF running THEN "submit" ELSE "cleanup"
    /\ cur' = IF running THEN cur ELSE NoMessage
    /\ UNCHANGED <<running, subscribed, signalled, queue, delivered,
                   dispatched, finished>>
    /\ UNCHANGED dvars
    /\ UNCHANGED avars

\* _consume_loop lines 53-54: executor.submit(self._process_message, data).
\* ThreadPoolExecutor.submit appends to an unbounded queue and returns.
executor_submit ==
    /\ cpc = "submit"
    /\ queue' = Append(queue, cur)
    /\ dispatched' = dispatched + 1
    /\ cur' = NoMessage
    /\ cpc' = "listen"
    /\ UNCHANGED <<running, subscribed, signalled, delivered, finished>>
    /\ UNCHANGED dvars
    /\ UNCHANGED avars

\* _cleanup lines 84-90: unsubscribe and close the pubsub handle, close the
\* connection.
cleanup_pubsub ==
    /\ cpc = "cleanup"
    /\ subscribed' = FALSE
    /\ cpc' = "shutdown"
    /\ UNCHANGED <<running, signalled, cur, queue, delivered, dispatched,
                   finished>>
    /\ UNCHANGED dvars
    /\ UNCHANGED avars

\* A shutdown that returns without waiting for the pool (wait=False).
executor_shutdown_nowait ==
    /\ cpc = "shutdown"
    /\ cpc' = "stopped"
    /\ UNCHANGED <<running, subscribed, signalled, cur, queue, delivered,
                   dispatched, finished>>
    /\ UNCHANGED dvars
    /\ UNCHANGED avars

\* _cleanup line 92: executor.shutdown(wait=True) returns when the queue is
\* empty and every thread has finished its message.
executor_shutdown ==
    /\ cpc = "shutdown"
    /\ queue = << >>
    /\ \A w \in Workers : pc[w] = "idle"
    /\ cpc' = "stopped"
    /\ UNCHANGED <<running, subscribed, signalled, cur, queue, delivered,
                   dispatched, finished>>
    /\ UNCHANGED dvars
    /\ UNCHANGED avars

\* A thread that takes a work item while it is still running one.
ThreadAlwaysFree(w) == TRUE

\* A pool thread runs one work item at a time: it takes the next one from
\* the queue only when it has finished the previous one.
ThreadFree(w) == pc[w] = "idle"

\* Idle pool threads are interchangeable: the lowest-numbered one takes the
\* next work item.
LowestFree(w) == \A v \in Workers : v < w => pc[v] # "idle"

\* _process_message lines 62-70 on a valid message: decode, validate, open
\* a session and call process_event, which builds the row and db.add()s it.
process_message(w) ==
    /\ ThreadFree(w)
    /\ LowestFree(w)
    /\ queue # << >>
    /\ json_loads(Head(queue)) /\ Validates(Head(queue))
    /\ queue' = Tail(queue)
    /\ pc' = [pc EXCEPT ![w] = "flush"]
    /\ ev' = [ev EXCEPT ![w] = EventOf(Head(queue))]
    /\ begun' = [begun EXCEPT ![w] = Len(log)]
    /\ calls' = calls + 1
    /\ UNCHANGED <<rows, stats, audit, lock, txRow, txAudit, local, outcome,
                   log, faults>>
    /\ UNCHANGED <<cpc, running, subscribed, signalled, cur, delivered,
                   dispatched, finished>>
    /\ UNCHANGED inserted
    /\ UNCHANGED avars

\* A worker whose failure on a message clears the consumer's running flag.
reject_message_stops_consumer(w) ==
    /\ ThreadFree(w)
    /\ LowestFree(w)
    /\ queue # << >>
    /\ ~(json_loads(Head(queue)) /\ Validates(Head(queue)))
    /\ queue' = Tail(queue)
    /\ finished' = finished + 1
    /\ running' = FALSE
    /\ UNCHANGED <<cpc, subscribed, signalled, cur, delivered, dispatched>>
    /\ UNCHANGED dvars
    /\ UNCHANGED avars

\* _process_message lines 75-78: json.loads or Event(**event_data) raises;
\* the error is logged and the message dropped before any session is opened.
reject_message(w) ==
    /\ ThreadFree(w)
    /\ LowestFree(w)
    /\ queue # << >>
    /\ ~(json_loads(Head(queue)) /\ Validates(Head(queue)))
    /\ queue' = Tail(queue)
    /\ finished' = finished + 1
    /\ UNCHANGED <<cpc, running, subscribed, signalled, cur, delivered,
                   dispatched>>
    /\ UNCHANGED dvars
    /\ UNCHANGED avars

\* A context that hands the thread back with the session left as it is:
\* neither committed nor rolled back nor closed.
context_exit_leaves_open(w) ==
    /\ pc[w] = "returned"
    /\ pc' = [pc EXCEPT ![w] = "idle"]
    /\ Handed(w)
    /\ finished' = finished + 1
    /\ UNCHANGED <<rows, stats, audit, lock, txRow, txAudit, local, log,
                   calls, faults>>
    /\ UNCHANGED <<cpc, running, subscribed, signalled, cur, queue, delivered,
                   dispatched>>
    /\ UNCHANGED avars

\* _process_message line 68 / database.py 40-41, 47: process_event has
\* returned, get_db_context commits and closes the session, and the thread
\* is free again.
context_exit(w) ==
    /\ pc[w] = "returned"
    /\ SessionCommit(w, txAudit[w])
    /\ txAudit' = [txAudit EXCEPT ![w] = EmptyBag]
    /\ pc' = [pc EXCEPT ![w] = "idle"]
    /\ Handed(w)
    /\ finished' = finished + 1
    /\ UNCHANGED <<log, calls, faults>>
    /\ UNCHANGED <<cpc, running, subscribed, signalled, cur, queue, delivered,
                   dispatched>>
    /\ UNCHANGED avars

\* database.py 41-47: the commit at the context's exit raises; the except
\* clause rolls back and re-raises, the finally clause closes the session,
\* and _process_message line 79 logs the exception: the thread is free.
\* With nothing pending the session has no transaction in progress and its
\* commit sends nothing to the store.
context_exit_fail(w) ==
    /\ pc[w] = "returned"
    /\ txAudit[w] # EmptyBag
    /\ MayFail
    /\ faults' = faults + 1
    /\ SessionRollback(w)
    /\ txAudit' = [txAudit EXCEPT ![w] = EmptyBag]
    /\ pc' = [pc EXCEPT ![w] = "idle"]
    /\ Handed(w)
    /\ finished' = finished + 1
    /\ UNCHANGED <<log, calls>>
    /\ UNCHANGED <<cpc, running, subscribed, signalled, cur, queue, delivered,
                   dispatched>>
    /\ UNCHANGED avars

Next ==
    \/ \E w \in Workers : \E e \in Event : process_event(w, e)
    \/ \E w \in Workers : flush_ok(w)
    \/ \E w \in Workers : flush_integrity(w)
    \/ \E w \in Workers : stats_ok(w)
    \/ \E w \in Workers : commit_ok(w)
    \/ \E w \in Workers : store_error(w)
    \/ \E w \in Workers : error_audit_ok(w)
    \/ \E w \in Workers : error_audit_fail(w)
    \/ \E w \in Workers : dup_stats_ok(w)
    \/ \E w \in Workers : dup_commit_ok(w)
    \/ \E w \in Workers : dup_stats_fail(w)
    \/ \E w \in Workers : caller_commit(w)
    \/ \E w \in Workers : caller_close(w)
    \/ \E w \in Workers : caller_keep(w)

Spec == Init /\ [][Next]_vars

\* lines 30-49 with an IntegrityError that does not come from the
\* (topic, event_id) unique key (another constraint of the stored schema):
\* flush, _update_stats or commit raises it, the except clause of line 47
\* catches it by its class, rolls back and goes on as for a duplicate.
other_integrity(w) ==
    /\ pc[w] \in {"flush", "stats", "commit"}
    /\ MayFail
    /\ faults' = faults + 1
    /\ SessionRollback(w)
    /\ txAudit' = [txAudit EXCEPT ![w] = EmptyBag]
    /\ pc' = [pc EXCEPT ![w] = "dup_stats"]
    /\ UNCHANGED <<ev, outcome, begun, log, calls>>
    /\ UNCHANGED cvars
    /\ UNCHANGED inserted
    /\ UNCHANGED avars

\* The dedup core on a store whose failures include the violation of a
\* constraint other than the dedup key.
IntegrityNext ==
    \/ \E w \in Workers : \E e \in Event : process_event(w, e)
    \/ \E w \in Workers : flush_ok(w)
    \/ \E w \in Workers : flush_integrity(w)
    \/ \E w \in Workers : other_integrity(w)
    \/ \E w \in Workers : stats_ok(w)
    \/ \E w \in Workers : commit_ok(w)
    \/ \E w \in Workers : store_error(w)
    \/ \E w \in Workers : error_audit_ok(w)
    \/ \E w \in Workers : error_audit_fail(w)
    \/ \E w \in Workers : dup_stats_ok(w)
    \/ \E w \in Workers : dup_commit_ok(w)
    \/ \E w \in Workers : dup_stats_fail(w)
    \/ \E w \in Workers : caller_commit(w)
    \/ \E w \in Workers : caller_close(w)
    \/ \E w \in Workers : caller_keep(w)

SpecIntegrity == Init /\ [][IntegrityNext]_vars

\* The dedup core on a store that does not fail.
FairNext ==
    \/ \E w \in Workers : \E e \in Event : process_event(w, e)
    \/ \E w \in Workers : flush_ok(w)
    \/ \E w \in Workers : flush_integrity(w)
    \/ \E w \in Workers : stats_ok(w)
    \/ \E w \in Workers : commit_ok(w)
    \/ \E w \in Workers : dup_stats_ok(w)
    \/ \E w \in Workers : dup_commit_ok(w)
    \/ \E w \in Workers : caller_commit(w)
    \/ \E w \in Workers : caller_close(w)
    \/ \E w \in Workers : caller_keep(w)

\* The next statement of the call session w is running.
WorkerStep(w) ==
    \/ flush_ok(w) \/ flush_integrity(w)
    \/ stats_ok(w) \/ commit_ok(w)
    \/ dup_stats_ok(w) \/ dup_commit_ok(w)

\* Every worker thread is scheduled, and the store serves the transactions
\* that wait for a row lock or for an index entry in turn: a statement that
\* can run again and again is eventually run.
SpecFair ==
    Init /\ [][FairNext]_vars /\ \A w \in Workers : SF_vars(WorkerStep(w))

\* The consumer: the main thread, the signal handler, the pool threads and
\* the dedup protocol each of them runs on its own session.
ConsumerNext ==
    \/ start_running
    \/ start_subscribe
    \/ start_install
    \/ signal_handler
    \/ \E m \in Messages : listen(m)
    \/ listen_error
    \/ check_running
    \/ executor_submit
    \/ cleanup_pubsub
    \/ executor_shutdown
    \/ \E w \in Workers : process_message(w)
    \/ \E w \in Workers : reject_message(w)
    \/ \E w \in Workers : flush_ok(w)
    \/ \E w \in Workers : flush_integrity(w)
    \/ \E w \in Workers : stats_ok(w)
    \/ \E w \in Workers : commit_ok(w)
    \/ \E w \in Workers : store_error(w)
    \/ \E w \in Workers : error_audit_ok(w)
    \/ \E w \in Workers : error_audit_fail(w)
    \/ \E w \in Workers : dup_stats_ok(w)
    \/ \E w \in Workers : dup_commit_ok(w)
    \/ \E w \in Workers : dup_stats_fail(w)
    \/ \E w \in Workers : context_exit(w)
    \/ \E w \in Workers : context_exit_fail(w)

SpecConsumer == Init /\ [][ConsumerNext]_vars

\* ------------------------------------------------------- the HTTP service

\* The store as the HTTP service finds it: rows with distinct keys, each
\* with the processed_at its INSERT was given (equal values occur).
ApiEventIds == {"E1", "E2"}

Times == {1, 2}

StoredRow(k, t) ==
    [topic |-> k[1], event_id |-> k[2], payload |-> "p1", processed_at |-> t]

StoredRows == {StoredRow(k, t) : k \in Topics \X ApiEventIds, t \in Times}

\* The tables list their rows in one fixed order of the keys: the order of
\* the rows in the table is not visible to any query.
KeySeq == <<<<"T1", "E1">>, <<"T1", "E2">>, <<"T2", "E1">>, <<"T2", "E2">>>>

KeyIndex(r) == CHOOSE i \in 1 .. Len(KeySeq) : KeySeq[i] = KeyOf(r)

Tables ==
    UNION {{s \in [1 .. n -> StoredRows] :
               \A i, j \in 1 .. n : i < j => KeyIndex(s[i]) < KeyIndex(s[j])} :
           n \in 0 .. MaxRows}

\* The event_stats table before init_db has created row id=1.
NoRow == [id |-> 0]

\* The states of the store the service is started on: any table of rows,
\* the counters that go with it, or an empty store without the stats row.
InitApi ==
    /\ rows \in Tables
    /\ stats \in {[received |-> Len(rows) + 1,
                    unique_processed |-> Len(rows),
                    duplicate_dropped |-> 1]}
                  \cup (IF Len(rows) = 0 THEN {NoRow} ELSE {})
    /\ audit = SetToBag({AuditLog(rows[i].topic, rows[i].event_id,
                                  "processed") : i \in 1 .. Len(rows)})
    /\ lock = NoWorker
    /\ pc = [w \in Workers |-> "idle"]
    /\ ev = [w \in Workers |-> NoEvent]
    /\ txRow = [w \in Workers |-> << >>]
    /\ txAudit = [w \in Workers |-> EmptyBag]
    /\ local = [w \in Workers |-> EventStats]
    /\ outcome = [w \in Workers |-> "none"]
    /\ begun = [w \in Workers |-> 0]
    /\ log = << >>
    /\ calls = 0
    /\ faults = 0
    /\ inserted = [w \in Workers |-> FALSE]
    /\ cpc = "init"
    /\ running = FALSE
    /\ subscribed = FALSE
    /\ signalled = FALSE
    /\ cur = NoMessage
    /\ queue = << >>
    /\ delivered = 0
    /\ dispatched = 0
    /\ finished = 0
    /\ response = NoResponse
    /\ published = << >>

\* What the handlers leave alone besides the tables: sessions of the dedup
\* workers, the history and the consumer.
ApiFrame ==
    UNCHANGED <<pc, ev, txRow, txAudit, local, outcome, begun, log, calls,
                faults, inserted, cpc, running, subscribed, signalled, cur,
                queue, delivered, dispatched, finished>>

\* The values of limit and offset the service is queried with.
PageSizes == 0 .. 2

\* GET /events without a topic parameter, or with an empty one.
NoTopic == ""

\* app.py 132-133: if topic: query.filter(ProcessedEvent.topic == topic).
Filtered(topic) ==
    {i \in 1 .. Len(rows) : topic = NoTopic \/ rows[i].topic = topic}

\* The sequences that list every element of S once.
Orderings(S) ==
    {s \in [1 .. Cardinality(S) -> S] :
        \A i, j \in 1 .. Cardinality(S) : i < j => s[i] # s[j]}

\* An ascending order.
OrderedAsc(s) ==
    \A i, j \in 1 .. Len(s) :
        i < j => rows[s[i]].processed_at <= rows[s[j]].processed_at

\* app.py 135: order_by(ProcessedEvent.processed_at.desc()); rows with equal
\* processed_at come in any order.
OrderedDesc(s) ==
    \A i, j \in 1 .. Len(s) :
        i < j => rows[s[i]].processed_at >= rows[s[j]].processed_at

Min(a, b) == IF a < b THEN a ELSE b

\* app.py 136: .limit(limit).offset(offset): OFFSET rows are skipped, then
\* at most LIMIT rows returned.
Page(s, limit, offset) ==
    [i \in 1 .. (Min(offset + limit, Len(s)) - Min(offset, Len(s))) |->
        rows[s[offset + i]]]

\* GET /events (app.py 125-154).
get_events(topic, limit, offset) ==
    /\ \E s \in Orderings(Filtered(topic)) :
          /\ OrderedDesc(s)
          /\ response' = [op |-> "get_events", topic |-> topic,
                          limit |-> limit, offset |-> offset,
                          items |-> Page(s, limit, offset)]
    /\ UNCHANGED <<rows, stats, audit, lock, published>>
    /\ ApiFrame

\* A /stats handler that reads the counters with SELECT ... FOR UPDATE and
\* keeps the lock.
get_stats_for_update ==
    /\ lock = NoWorker
    /\ lock' = NumWorkers + 1
    /\ response' = [op |-> "get_stats"]
    /\ UNCHANGED <<rows, stats, audit, published>>
    /\ ApiFrame

\* GET /stats (app.py 157-181): the counters (zeros without the row) and
\* the number of distinct topics.
get_stats ==
    /\ response' =
          [op |-> "get_stats",
           received |-> IF stats = NoRow THEN 0 ELSE stats.received,
           unique_processed |->
               IF stats = NoRow THEN 0 ELSE stats.unique_processed,
           duplicate_dropped |->
               IF stats = NoRow THEN 0 ELSE stats.duplicate_dropped,
           topics |-> Cardinality({rows[i].topic : i \in 1 .. Len(rows)})]
    /\ UNCHANGED <<rows, stats, audit, lock, published>>
    /\ ApiFrame

\* GET /topics (app.py 184-191).
get_topics ==
    /\ response' = [op |-> "get_topics",
                    topics |-> {rows[i].topic : i \in 1 .. Len(rows)}]
    /\ UNCHANGED <<rows, stats, audit, lock, published>>
    /\ ApiFrame

\* event.model_dump_json(): the message published for an event.
model_dump_json(e) ==
    [json |-> TRUE, topic |-> e.topic, event_id |-> e.event_id,
     payload |-> e.payload]

\* The request bodies of /publish: one event or a batch of two.
Batches ==
    {<<EventOf(m)>> : m \in {v \in Messages : json_loads(v) /\ Validates(v)}}
    \cup {<<EventOf(m), EventOf(m)>> :
             m \in {v \in Messages : json_loads(v) /\ Validates(v)}}

\* POST /publish (app.py 93-122): every event of the body is published to
\* the channel; the store is not touched.
publish_events(events) ==
    /\ Len(published) + Len(events) <= MaxMessages
    /\ published' = published \o [i \in 1 .. Len(events) |->
                                     model_dump_json(events[i])]
    /\ response' = [op |-> "publish", status |-> "accepted",
                    accepted |-> Len(events)]
    /\ UNCHANGED <<rows, stats, audit, lock>>
    /\ ApiFrame

\* An initialisation that writes the zero row whether or not one exists.
init_db_resets ==
    /\ stats' = EventStats
    /\ response' = [op |-> "init_db"]
    /\ UNCHANGED <<rows, audit, lock, published>>
    /\ ApiFrame

\* init_db (database.py 50-67): create row id=1 with zero counters if the
\* table has no such row.
init_db ==
    /\ stats' = IF stats = NoRow THEN EventStats ELSE stats
    /\ response' = [op |-> "init_db"]
    /\ UNCHANGED <<rows, audit, lock, published>>
    /\ ApiFrame

ApiNext ==
    \/ \E topic \in {NoTopic, "T1", "T3"} :
          \E limit, offset \in PageSizes : get_events(topic, limit, offset)
    \/ get_stats
    \/ get_topics
    \/ \E events \in Batches : publish_events(events)
    \/ init_db

SpecApi == InitApi /\ [][ApiNext]_vars

\* ------------------------------------------------------ Event validation
\* Strings are kept in a compressed form: `pad` letters followed by the
\* characters of `tail`.  "a" is any letter or digit, "." any of . _ - ,
\* " " a blank, "NL" the newline character and "!" any other character.
MinLength == 1

MaxLength == 255

TopicClass == {"a", "."}

Whitespace == {" ", "NL"}

Missing == [present |-> FALSE, pad |-> 0, tail |-> << >>]

Str(pad, tail) == [present |-> TRUE, pad |-> pad, tail |-> tail]

Length(v) == v.pad + Len(v.tail)

Pads == {0, 1, MaxLength - 1, MaxLength}

Tails ==
    {<< >>, <<".">>, <<"!">>, <<" ">>, <<"NL">>, <<".", "NL">>, <<"NL", ".">>}

Strings == {Str(pad, tail) : pad \in Pads, tail \in Tails} \cup {Missing}

Sources ==
    {Missing, Str(0, << >>), Str(0, <<" ">>), Str(1, << >>),
     Str(MaxLength, << >>), Str(MaxLength, <<".">>)}

NoText == [present |-> FALSE, text |-> ""]

Text(t) == [present |-> TRUE, text |-> t]

Timestamps ==
    {NoText, Text("2025-12-02T10:30:00Z"), Text("2025-12-02T10:30:00+07:00"),
     Text("2025-12-02"), Text("not-a-date"), Text("")}

\* Field(..., min_length=1, max_length=255): required, with a length range.
FieldStr(v) == v.present /\ Length(v) >= MinLength /\ Length(v) <= MaxLength

\* re.match(r"^[a-zA-Z0-9._-]+$", v): without re.MULTILINE, $ matches at the
\* end of the string and also just before a newline that ends the string.
re_match(v) ==
    LET n == Len(v.tail)
        body == IF n > 0 /\ v.tail[n] = "NL" THEN SubSeq(v.tail, 1, n - 1)
                ELSE v.tail
    IN  /\ v.pad + Len(body) >= 1
        /\ \A i \in 1 .. Len(body) : body[i] \in TopicClass

validate_topic(v) == re_match(v)

\* v.strip(): what is left after the leading and trailing whitespace.
strip(v) ==
    LET keep == {i \in 1 .. Len(v.tail) : v.tail[i] \notin Whitespace}
        first == IF v.pad > 0 THEN 1 ELSE CHOOSE i \in keep : \A j \in keep : i <= j
        last == CHOOSE i \in keep : \A j \in keep : i >= j
    IN  IF keep = {} THEN Str(v.pad, << >>)
        ELSE Str(v.pad, SubSeq(v.tail, first, last))

validate_event_id(v) == Length(strip(v)) > 0

\* v.replace("Z", "+00:00")
replace_Z(t) == IF t = "2025-12-02T10:30:00Z" THEN "2025-12-02T10:30:00+00:00" ELSE t

\* datetime.fromisoformat: a calendar date, or a date and a time with an
\* offset; the UTC designator Z is not read by every version.
fromisoformat(t) ==
    t \in {"2025-12-02T10:30:00+00:00", "2025-12-02T10:30:00+07:00",
           "2025-12-02"}

validate_timestamp(v) == fromisoformat(replace_Z(v.text))

Candidates ==
    [topic : Strings, event_id : Strings, timestamp : Timestamps,
     source : Sources, payload : BOOLEAN]

\* Event(**event_data): every field is required; a field's validator is the
\* last step of that field's check.
EventAccepts(rec) ==
    /\ FieldStr(rec.topic) /\ validate_topic(rec.topic)
    /\ FieldStr(rec.event_id) /\ validate_event_id(rec.event_id)
    /\ rec.timestamp.present /\ validate_timestamp(rec.timestamp)
    /\ FieldStr(rec.source)
    /\ rec.payload

\* A record waits to be validated; nothing else has happened yet.
InitValidate ==
    /\ rows = << >>
    /\ stats = EventStats
    /\ audit = EmptyBag
    /\ lock = NoWorker
    /\ pc = [w \in Workers |-> "idle"]
    /\ ev = [w \in Workers |-> NoEvent]
    /\ txRow = [w \in Workers |-> << >>]
    /\ txAudit = [w \in Workers |-> EmptyBag]
    /\ local = [w \in Workers |-> EventStats]
    /\ outcome = [w \in Workers |-> "none"]
    /\ begun = [w \in Workers |-> 0]
    /\ log = << >>
    /\ calls = 0
    /\ faults = 0
    /\ inserted = [w \in Workers |-> FALSE]
    /\ cpc = "init"
    /\ running = FALSE
    /\ subscribed = FALSE
    /\ signalled = FALSE
    /\ cur = NoMessage
    /\ queue = << >>
    /\ delivered = 0
    /\ dispatched = 0
    /\ finished = 0
    /\ response \in {[op |-> "input", rec |-> rec] : rec \in Candidates}
    /\ published = << >>

validate_event ==
    /\ response.op = "input"
    /\ response' = [op |-> "validate", rec |-> response.rec,
                    accepted |-> EventAccepts(response.rec)]
    /\ UNCHANGED published
    /\ UNCHANGED cvars
    /\ UNCHANGED dvars

ValidateNext == validate_event

SpecValidate == InitValidate /\ [][ValidateNext]_vars

\* ------------------------------------------------------------ properties

\* The committed processed_events rows that hold key k.
RowsOf(k) == {i \in 1 .. Len(rows) : KeyOf(rows[i]) = k}

\* The returned calls that presented key k.
CallsOf(k) == {i \in 1 .. Len(log) : KeyOf(log[i].ev) = k}

\* The returned calls of key k with the given outcome.
CallsWith(k, res) == {i \in CallsOf(k) : log[i].outcome = res}

\* No returned call of key k ended in the error outcome.
NoErrorOn(k) == \A i \in CallsOf(k) : log[i].ok

\* No returned call at all ended in the error outcome.
NoError == \A i \in 1 .. Len(log) : log[i].ok

\* Every call that was started has returned.
Quiescent == \A w \in Workers : pc[w] \in {"idle", "returned"}

\* Calls i < j of the log overlapped: j had begun when i returned.
Overlap(i, j) == i < j /\ log[j].begun < i

\* The keys the returned calls presented.
KeysPresented == {KeyOf(log[i].ev) : i \in 1 .. Len(log)}

\* C1: in every committed state the processed_events table holds at most
\* one row per (topic, event_id) pair.
C1_AtMostOneRowPerKey == \A k \in Keys : Cardinality(RowsOf(k)) <= 1

\* A key presented by overlapping calls that all returned; one row stored.
C1_Witness ==
    \E k \in Keys :
        /\ Quiescent
        /\ Cardinality(CallsOf(k)) >= 2
        /\ \E i, j \in CallsOf(k) : Overlap(i, j)
        /\ Cardinality(RowsOf(k)) = 1

\* C2: when the calls that present one key on a store that did not hold it
\* have all returned, in any interleaving, and none ended in error, exactly
\* one returned 'processed' and each of the others returned 'duplicate'.
C2_OneProcessedRestDuplicate ==
    \A k \in Keys :
        (/\ CallsOf(k) # {}
         /\ NoErrorOn(k)
         /\ \A w \in Workers :
                pc[w] \in {"idle", "returned"} \/ KeyOf(ev[w]) # k)
        => /\ Cardinality(CallsWith(k, "processed")) = 1
           /\ Cardinality(CallsWith(k, "duplicate")) =
                  Cardinality(CallsOf(k)) - 1

\* Every worker presented the same key, the calls pairwise overlapped, and
\* all have returned without error.
C2_Witness ==
    \E k \in Keys :
        /\ Len(log) = NumWorkers
        /\ NoErrorOn(k)
        /\ \A w \in Workers : \E i \in CallsOf(k) : log[i].w = w
        /\ \A i, j \in CallsOf(k) : i < j => Overlap(i, j)
        /\ Cardinality(CallsWith(k, "processed")) = 1

\* C3: when every returned call of a key came in sequence through one
\* session and none ended in error, the first returned 'processed', every
\* later one 'duplicate', and the store holds exactly the row of the first
\* presentation for that key.
C3_SequentialIdempotence ==
    \A k \in Keys : \A w \in Workers :
        (/\ CallsOf(k) # {}
         /\ NoErrorOn(k)
         /\ \A i \in CallsOf(k) : log[i].w = w)
        => \A i \in CallsOf(k) :
               /\ log[i].outcome =
                      IF \A j \in CallsOf(k) : i <= j
                      THEN "processed" ELSE "duplicate"
               /\ (\A j \in CallsOf(k) : i <= j) =>
                      /\ Cardinality(RowsOf(k)) = 1
                      /\ \A r \in RowsOf(k) :
                             rows[r] = ProcessedEvent(log[i].ev)

\* One session presented a key MaxCalls times in sequence, the later
\* presentations with another payload; the stored row is the first one's.
C3_Witness ==
    \E k \in Keys : \E w \in Workers :
        /\ Len(log) = MaxCalls
        /\ CallsOf(k) = 1 .. MaxCalls
        /\ \A i \in CallsOf(k) : log[i].w = w /\ log[i].begun = i - 1
        /\ log[1].outcome = "processed"
        /\ \A i \in 2 .. MaxCalls :
               /\ log[i].outcome = "duplicate"
               /\ log[i].ev.payload # log[1].ev.payload
        /\ rows = <<ProcessedEvent(log[1].ev)>>

\* C4: when all M calls have returned and none ended in error, the committed
\* counters are received = M, unique_processed = D (the number of distinct
\* keys presented) and duplicate_dropped = M - D.
C4_NoIncrementLost ==
    (Quiescent /\ NoError)
    => /\ stats.received = Len(log)
       /\ stats.unique_processed = Cardinality(KeysPresented)
       /\ stats.duplicate_dropped = Len(log) - Cardinality(KeysPresented)

\* C5: in every committed state unique_processed equals the number of
\* committed processed_events rows.
C5_UniqueEqualsRowCount == stats.unique_processed = Len(rows)

\* Two rows of different keys were committed by overlapping calls.
C5_Witness ==
    /\ Len(rows) = 2
    /\ \E i, j \in 1 .. Len(log) :
           /\ Overlap(i, j)
           /\ log[i].outcome = "processed" /\ log[j].outcome = "processed"

\* C6: in every committed state received >= unique_processed +
\* duplicate_dropped, with equality if no call has ended in error.
C6_ReceivedCoversOutcomes ==
    /\ stats.received >= stats.unique_processed + stats.duplicate_dropped
    /\ NoError =>
           stats.received = stats.unique_processed + stats.duplicate_dropped

\* Processed and duplicate outcomes were both counted and no call erred.
C6_Witness ==
    /\ NoError
    /\ stats.unique_processed >= 1
    /\ stats.duplicate_dropped >= 1
    /\ stats.received = stats.unique_processed + stats.duplicate_dropped

\* C7: after any sequence of completed process_event calls, received equals
\* the number of those calls, the calls that ended in error included.
C7_ReceivedCountsEveryCall == Quiescent => stats.received = Len(log)

\* C8: every call that returns 'duplicate' has increased the committed
\* received counter by 1 and duplicate_dropped by 1 and left unique_processed
\* unchanged (the call's only counter commit is the step it returns in).
C8_DuplicateCounts ==
    [][\A w \in Workers :
          (pc[w] # "returned" /\ pc'[w] = "returned"
             /\ outcome'[w] = "duplicate")
          => stats' = [stats EXCEPT !.received = @ + 1,
                                    !.duplicate_dropped = @ + 1]]_vars

\* C9: the step in which a call returns 'processed' commits the new row
\* together with received + 1 and unique_processed + 1 and leaves
\* duplicate_dropped unchanged; no other step commits a row.
C9_ProcessedCommitsRowAndCounters ==
    [][/\ \A w \in Workers :
             (pc[w] # "returned" /\ pc'[w] = "returned"
                /\ outcome'[w] = "processed")
             => /\ rows' = Append(rows, ProcessedEvent(ev[w]))
                /\ stats' = [stats EXCEPT !.received = @ + 1,
                                          !.unique_processed = @ + 1]
       /\ rows' # rows =>
             /\ stats'.received = stats.received + 1
             /\ stats'.unique_processed = stats.unique_processed + 1
             /\ stats'.duplicate_dropped = stats.duplicate_dropped]_vars

\* A call has returned 'processed' for the second stored row.
C9_Witness ==
    \E w \in Workers :
        /\ pc[w] = "returned" /\ outcome[w] = "processed"
        /\ rows = <<ProcessedEvent(log[1].ev), ProcessedEvent(ev[w])>>
        /\ stats.received = 2 /\ stats.unique_processed = 2

\* C10: two events with the same event_id and different topics have
\* independent keys: when the calls of both keys have returned without
\* error, each key has exactly one 'processed' call and one stored row.
C10_TopicsAreIndependent ==
    \A e \in EventIds : \A t1, t2 \in Topics :
        (/\ t1 # t2
         /\ CallsOf(<<t1, e>>) # {} /\ CallsOf(<<t2, e>>) # {}
         /\ NoErrorOn(<<t1, e>>) /\ NoErrorOn(<<t2, e>>))
        => /\ \E i \in CallsOf(<<t1, e>>) : log[i].outcome = "processed"
           /\ \E i \in CallsOf(<<t2, e>>) : log[i].outcome = "processed"
           /\ Cardinality(RowsOf(<<t1, e>>)) = 1
           /\ Cardinality(RowsOf(<<t2, e>>)) = 1

\* (T1, E) and (T2, E) were presented by overlapping calls, both processed.
C10_Witness ==
    \E e \in EventIds : \E t1, t2 \in Topics :
        /\ t1 # t2
        /\ Len(log) = 2
        /\ Overlap(1, 2)
        /\ log[1].ev.event_id = e /\ log[2].ev.event_id = e
        /\ log[1].ev.topic = t1 /\ log[2].ev.topic = t2
        /\ log[1].outcome = "processed" /\ log[2].outcome = "processed"
        /\ Len(rows) = 2

\* A 'processed' call on the event of w's call returned before w's call began.
ProcessedBefore(w) ==
    {i \in 1 .. begun[w] :
        log[i].ev = ev[w] /\ log[i].outcome = "processed"}

\* C11: an event was processed through one session; a call that begins
\* after that one returned (through a new or emptied session on the same
\* store) and presents the same event returns 'duplicate', leaves one row
\* for the key, keeps unique_processed and raises duplicate_dropped by 1.
C11_RestartIsIdempotent ==
    [][\A w \in Workers :
          (/\ pc[w] # "returned" /\ pc'[w] = "returned"
           /\ ProcessedBefore(w) # {}
           /\ log'[Len(log')].ok)
          => /\ outcome'[w] = "duplicate"
             /\ rows' = rows
             /\ Cardinality(RowsOf(KeyOf(ev[w]))) = 1
             /\ stats'.unique_processed = stats.unique_processed
             /\ stats'.duplicate_dropped = stats.duplicate_dropped + 1]_vars

\* Committed audit rows of key k with the given action.
AuditRows(k, action) == CopiesIn(AuditLog(k[1], k[2], action), audit)

\* Every session is between calls and holds nothing uncommitted.
AllHandedBack ==
    \A w \in Workers : pc[w] = "idle" /\ txAudit[w] = EmptyBag

\* C12: once every attempt has ended and no store failure occurred, the
\* committed audit table holds exactly one row per attempt, carrying the
\* attempt's (event_topic, event_id) and its outcome as action.
C12_OneAuditRowPerAttempt ==
    (AllHandedBack /\ faults = 0)
    => \A k \in Keys : \A a \in {"processed", "duplicate"} :
           AuditRows(k, a) = Cardinality(CallsWith(k, a))

\* The returned calls with the given outcome, in order of return.
Outcomes(res) == {i \in 1 .. Len(log) : log[i].outcome = res}

\* The rows the 'processed' calls stored, in order of return.
RECURSIVE RowsOfProcessed(_)
RowsOfProcessed(n) ==
    IF n = 0 THEN << >>
    ELSE IF log[n].outcome = "processed"
         THEN Append(RowsOfProcessed(n - 1), ProcessedEvent(log[n].ev))
         ELSE RowsOfProcessed(n - 1)

C15_OutcomeIsOneOfThree ==
    \A i \in 1 .. Len(log) :
        /\ log[i].outcome \in {"processed", "duplicate", "error"}
        /\ log[i].ok = (log[i].outcome # "error")

\* C15 amended: every returned pair is (TRUE, "processed"),
\* (TRUE, "duplicate") or (FALSE, m) where m is the text "Error: " followed
\* by the cause, which is none of the three outcome names.
C15_OutcomeMatchesOk ==
    \A i \in 1 .. Len(log) :
        \/ log[i].ok /\ log[i].outcome \in {"processed", "duplicate"}
        \/ /\ ~log[i].ok
           /\ log[i].outcome = ErrorOutcome
           /\ log[i].outcome \notin {"processed", "duplicate", "error"}

\* One call has returned the error pair and another a 'processed' pair.
C15_Witness ==
    /\ Len(log) = 2
    /\ \E i, j \in 1 .. 2 :
          /\ ~log[i].ok /\ log[i].outcome = ErrorOutcome
          /\ log[j].ok /\ log[j].outcome = "processed"

\* C16: in the step that returns 'processed' the new row, the counter
\* increments and the 'processed' audit row are committed and the session
\* holds nothing uncommitted; whatever the caller then does with the
\* session (commit, close, keep) changes nothing in the store; and no step
\* ever removes a committed row, audit row or counter increment.
C16_ProcessedIsAlreadyCommitted ==
    [][/\ \A w \in Workers :
             (pc[w] # "returned" /\ pc'[w] = "returned"
                /\ outcome'[w] = "processed")
             => /\ rows' = Append(rows, ProcessedEvent(ev[w]))
                /\ stats'.received = stats.received + 1
                /\ stats'.unique_processed = stats.unique_processed + 1
                /\ CopiesIn(AuditLog(ev[w].topic, ev[w].event_id,
                                     "processed"), audit') >= 1
                /\ txRow'[w] = << >> /\ txAudit'[w] = EmptyBag
                /\ lock' # w
       /\ \A w \in Workers :
             (pc[w] = "returned" /\ outcome[w] = "processed"
                /\ pc'[w] = "idle")
             => rows' = rows /\ stats' = stats /\ audit' = audit
       /\ Len(rows') >= Len(rows) /\ SubSeq(rows', 1, Len(rows)) = rows
       /\ audit \sqsubseteq audit'
       /\ stats'.received >= stats.received
       /\ stats'.unique_processed >= stats.unique_processed]_vars

\* The only call returned 'processed' and its session has been handed back
\* by the caller: the row, the counters and the audit row are in the store.
C16_Witness ==
    /\ calls = 1 /\ Len(log) = 1 /\ log[1].outcome = "processed"
    /\ \A w \in Workers : pc[w] = "idle"
    /\ rows = <<ProcessedEvent(log[1].ev)>>
    /\ stats = [received |-> 1, unique_processed |-> 1,
                duplicate_dropped |-> 0]
    /\ AuditRows(KeyOf(log[1].ev), "processed") = 1

\* ---------------------------------------------- properties of the consumer

\* A pool thread drops the message at the head of the queue.
RejectStep ==
    /\ queue # << >>
    /\ queue' = Tail(queue)
    /\ finished' = finished + 1

\* Everything in the store comes from a decoded, valid event.
OnlyValidEventsStored ==
    /\ \A i \in 1 .. Len(rows) : KeyOf(rows[i]) \in Keys
    /\ \A a \in BagToSet(audit) : <<a.event_topic, a.event_id>> \in Keys
    /\ stats.received <= Len(log)

\* C13: a message that fails JSON decoding or Event validation is dropped
\* in a step that changes no counter, no audit row and no processed_events
\* row, committed or pending, and starts no process_event call; nothing in
\* the store ever stems from such a message.
C13_InvalidMessageChangesNothing ==
    [][/\ RejectStep =>
             /\ ~(json_loads(Head(queue)) /\ Validates(Head(queue)))
             /\ UNCHANGED <<rows, stats, audit, txRow, txAudit, lock, calls,
                            log>>
       /\ OnlyValidEventsStored']_vars

\* Both kinds of invalid message and the valid one were delivered and have
\* finished: the store holds the one valid event and nothing else.
C13_Witness ==
    /\ delivered = 3 /\ finished = 3
    /\ Len(log) = 1 /\ log[1].outcome = "processed"
    /\ Len(rows) = 1
    /\ stats = [received |-> 1, unique_processed |-> 1,
                duplicate_dropped |-> 0]
    /\ BagCardinality(audit) = 1

\* Messages accepted from the bus by a dispatch and not yet finished.
InFlight == dispatched - finished

\* Messages a pool thread has taken from the queue and not yet finished.
Executing == dispatched - Len(queue) - finished

\* C17: a dispatch happens only while fewer than W messages are in flight
\* (with W in flight it would block until a worker is free), so the
\* messages accepted and not yet finished never exceed the pool size.
C17_DispatchBlocksAtPoolSize ==
    [][dispatched' = dispatched + 1
          => (InFlight < NumWorkers /\ InFlight' <= NumWorkers)]_vars

\* C18: in every reachable state at most W messages are executing the
\* dedup protocol, and each of them is run by a pool thread of its own.
C18_AtMostPoolSizeExecuting ==
    /\ Executing <= NumWorkers
    /\ Executing = Cardinality({w \in Workers : pc[w] # "idle"})

\* Every pool thread is inside the protocol at once while a further
\* dispatched message waits in the queue.
C18_Witness ==
    /\ Executing = NumWorkers
    /\ Len(queue) = 1
    /\ \A w \in Workers : pc[w] \in {"flush", "stats", "commit",
                                       "dup_stats", "dup_commit"}

\* The consumer's state as a rank: 0 Init (constructed, not subscribed),
\* 1 Subscribed (subscribed, receive loop not entered), 2 Running (in the
\* receive loop with the running flag set), 3 Draining (flag cleared or
\* loop left, cleanup not finished), 4 Stopped (_cleanup has returned).
ConsumerState ==
    CASE cpc \in {"init", "subscribe"} -> 0
      [] cpc = "install" -> 1
      [] cpc \in InLoop /\ running -> 2
      [] cpc \in InLoop /\ ~running -> 3
      [] cpc \in {"cleanup", "shutdown"} -> 3
      [] cpc = "stopped" -> 4

\* C19: every step keeps the consumer in its state or moves it to the next
\* one in the order Init, Subscribed, Running, Draining, Stopped; it is
\* subscribed whenever it is Running and never returns to an earlier state.
C19_StatesOnlyInOrder ==
    [][/\ ConsumerState' \in {ConsumerState, ConsumerState + 1}
       /\ (ConsumerState' = 2 => subscribed')]_vars

\* A consumer that dispatched a message, was signalled and has stopped.
C19_Witness ==
    /\ cpc = "stopped"
    /\ signalled
    /\ dispatched >= 1
    /\ ~subscribed

\* C20: once _signal_handler has run, no message is handed to the pool.
C20_NoDispatchAfterSignal ==
    [][dispatched' = dispatched + 1 => ~signalled]_vars

\* The positions of a session inside the dedup protocol.
InProtocol == {"flush", "stats", "commit", "error", "dup_stats", "dup_commit"}

\* C21: when the consumer is Stopped every dispatched message has finished:
\* the queue is empty, no thread is inside the protocol and no session
\* holds uncommitted work or the row lock; and no step takes a thread out
\* of the protocol except the protocol's own commit or rollback, which ends
\* in a return.
C21_DispatchedWorkFinishesBeforeStopped ==
    [][/\ cpc' = "stopped" =>
             /\ finished' = dispatched'
             /\ queue' = << >>
             /\ \A w \in Workers :
                    /\ pc'[w] = "idle"
                    /\ txRow'[w] = << >> /\ txAudit'[w] = EmptyBag
             /\ lock' = NoWorker
       /\ \A w \in Workers :
             (pc[w] \in InProtocol /\ pc'[w] # pc[w])
             => pc'[w] \in InProtocol \cup {"returned"}]_vars

\* The consumer was signalled and has stopped after three dispatches, of
\* which two ran the dedup protocol to its end.
C21_Witness ==
    /\ cpc = "stopped"
    /\ signalled
    /\ dispatched = 3 /\ finished = 3
    /\ Len(log) = 2

\* A step the consumer takes by itself: the receive loop past listen(), the
\* cleanup, or a pool thread's work.  Not included: a delivery or failure
\* of the bus, a signal, a store failure.
OwnStep ==
    \/ check_running
    \/ executor_submit
    \/ cleanup_pubsub
    \/ executor_shutdown
    \/ \E w \in Workers :
          \/ process_message(w) \/ reject_message(w) \/ context_exit(w)
          \/ flush_ok(w) \/ flush_integrity(w) \/ stats_ok(w)
          \/ commit_ok(w) \/ error_audit_ok(w)
          \/ dup_stats_ok(w) \/ dup_commit_ok(w)

\* C22: after a shutdown signal the consumer goes on to Stopped whether or
\* not the bus delivers a further message: as long as it is not Stopped,
\* some step of its own is possible.
C22_SignalLeadsToStoppedWithoutMessage ==
    (signalled /\ cpc # "stopped") => ENABLED OwnStep

\* C26: committed rows are never modified or deleted: every step keeps the
\* stored rows as they are and at most appends one, and the step in which
\* a call returns 'duplicate' or an error leaves the table as it is, also
\* when the later event carries a different payload.
C26_CommittedRowsAreImmutable ==
    [][/\ Len(rows') >= Len(rows)
       /\ SubSeq(rows', 1, Len(rows)) = rows
       /\ \A w \in Workers :
             (pc[w] # "returned" /\ pc'[w] = "returned"
                /\ outcome'[w] # "processed")
             => rows' = rows]_vars

\* An event was processed and a later event with the same key and another
\* payload returned 'duplicate': the stored row has the first payload.
C26_Witness ==
    /\ Len(log) = 2
    /\ log[1].outcome = "processed" /\ log[2].outcome = "duplicate"
    /\ KeyOf(log[1].ev) = KeyOf(log[2].ev)
    /\ log[1].ev.payload # log[2].ev.payload
    /\ rows = <<ProcessedEvent(log[1].ev)>>

\* The sessions whose transaction has run SELECT ... FOR UPDATE on the
\* stats row and has not yet committed or rolled back.
PastSelectForUpdate == {w \in Workers : pc[w] \in {"commit", "dup_commit"}}

\* C28: the counters change only in the commit of the transaction that
\* holds the row lock, to the values that transaction wrote; at most one
\* transaction at a time is past its SELECT ... FOR UPDATE, and it is the
\* lock holder; the lock is taken only when free and passes from a holder
\* to nobody, in that holder's commit or rollback.
C28_CountersChangeOnlyUnderLock ==
    [][/\ stats' # stats =>
             /\ lock \in Workers
             /\ pc[lock] \in {"commit", "dup_commit"}
             /\ pc'[lock] = "returned"
             /\ stats' = local[lock]
             /\ lock' = NoWorker
       /\ Cardinality(PastSelectForUpdate') <= 1
       /\ \A w \in PastSelectForUpdate' : lock' = w
       /\ (lock \in Workers /\ lock' # lock) =>
             /\ lock' = NoWorker
             /\ pc'[lock] \in {"returned", "error"}
       /\ (lock = NoWorker /\ lock' # NoWorker) =>
             /\ pc[lock'] \in {"stats", "dup_stats"}
             /\ pc'[lock'] \in {"commit", "dup_commit"}]_vars

\* One session holds the lock with its increment written while the other
\* has flushed its row and waits at its own SELECT ... FOR UPDATE.
C28_Witness ==
    \E w, v \in Workers :
        /\ w # v
        /\ lock = w /\ pc[w] = "commit"
        /\ pc[v] = "stats"
        /\ local[w].received = stats.received + 1

\* Committed audit rows with the given action, over the keys in S.
RECURSIVE SumOver(_, _)
SumOver(S, action) ==
    IF S = {} THEN 0
    ELSE LET k == CHOOSE x \in S : TRUE
         IN AuditRows(k, action) + SumOver(S \ {k}, action)

\* C29: the duplicate counter increments and the 'duplicate' audit row are
\* committed together: in every committed state duplicate_dropped equals
\* the number of committed 'duplicate' audit rows.
C29_DuplicateCountersAndAuditTogether ==
    stats.duplicate_dropped = SumOver(Keys, "duplicate")

\* C30: a call that has rolled back its failed work leaves the error path
\* only by returning ok = FALSE; in that step the 'error' audit row is
\* committed by itself (or, if that write fails, nothing is), the failed
\* work stays out of the store, and no later step removes an audit row.
C30_ErrorAuditSurvivesRollback ==
    [][/\ \A w \in Workers :
             (pc[w] = "error" /\ pc'[w] # "error")
             => /\ pc'[w] = "returned"
                /\ Len(log') = Len(log) + 1
                /\ ~log'[Len(log')].ok
                /\ log'[Len(log')].ev = ev[w]
                /\ \/ audit' = audit (+) SetToBag({AuditLog(ev[w].topic,
                                                    ev[w].event_id, "error")})
                   \/ audit' = audit
                /\ rows' = rows /\ stats' = stats
                /\ txRow'[w] = << >>
       /\ audit \sqsubseteq audit']_vars

\* A call failed and returned; its 'error' audit row is committed, no row
\* of the event is stored and the session has been closed without commit.
C30_Witness ==
    /\ Len(log) = 1 /\ ~log[1].ok
    /\ AuditRows(KeyOf(log[1].ev), "error") = 1
    /\ rows = << >> /\ stats = EventStats
    /\ \A w \in Workers : pc[w] = "idle"

\* --------------------------------------- properties of the HTTP service

\* C23: a step that answers GET /events, GET /stats, GET /topics or
\* POST /publish leaves processed_events, event_stats and audit_logs as
\* they are and does not change the holder of the stats row lock.
C23_HttpOperationsAreReadOnly ==
    [][response'.op \in {"get_events", "get_stats", "get_topics", "publish"}
          => (UNCHANGED <<rows, stats, audit>> /\ lock' = lock)]_vars

\* On a store with three rows a batch was published and a page of two rows
\* was read afterwards: rows, counters and audit are those of the start.
C23_Witness ==
    /\ Len(rows) = 3
    /\ stats = [received |-> 4, unique_processed |-> 3,
                duplicate_dropped |-> 1]
    /\ BagCardinality(audit) = 3
    /\ lock = NoWorker
    /\ Len(published) = 2
    /\ response.op = "get_events" /\ Len(response.items) = 2

\* The stored rows a topic filter selects; every row without a filter.
Selected(topic) ==
    {rows[i] : i \in {j \in 1 .. Len(rows) :
                         topic = NoTopic \/ rows[j].topic = topic}}

\* C24: the answer to GET /events lists stored rows of the filter's topic
\* (of any topic without a filter), each once, latest processed_at first;
\* it holds min(limit, rows selected - offset) rows, and its i-th row is at
\* place offset + i of the selected rows in descending processed_at order.
C24_EventsPageIsFilteredOrderedSlice ==
    response.op = "get_events" =>
        LET items == response.items
            sel == Selected(response.topic)
            n == Cardinality(sel)
            later(t) == Cardinality({r \in sel : r.processed_at > t})
            notEarlier(t) == Cardinality({r \in sel : r.processed_at >= t})
        IN /\ \A i \in 1 .. Len(items) : items[i] \in sel
           /\ \A i, j \in 1 .. Len(items) : i < j => items[i] # items[j]
           /\ \A i, j \in 1 .. Len(items) :
                 i < j => items[i].processed_at >= items[j].processed_at
           /\ Len(items) = Min(response.limit,
                               IF n > response.offset
                               THEN n - response.offset ELSE 0)
           /\ \A i \in 1 .. Len(items) :
                 /\ later(items[i].processed_at) <= response.offset + i - 1
                 /\ response.offset + i <= notEarlier(items[i].processed_at)

\* Of two T1 rows with different processed_at and a T2 row, the page with
\* offset 1 and limit 1 of topic T1 holds the earlier T1 row.
C24_Witness ==
    /\ response.op = "get_events"
    /\ response.topic = "T1" /\ response.limit = 1 /\ response.offset = 1
    /\ Len(rows) = 3
    /\ rows[1].topic = "T1" /\ rows[2].topic = "T1" /\ rows[3].topic = "T2"
    /\ rows[1].processed_at = 1 /\ rows[2].processed_at = 2
    /\ response.items = <<rows[1]>>

\* C27: the stats row is created only by init_db, only when the table has
\* none, and with all counters zero; once the row exists no step of the
\* service, a repeated init_db included, changes its counters or removes
\* it, so the table holds exactly one stats row from then on.
C27_InitDbCreatesOnceAndKeeps ==
    [][/\ stats # NoRow => stats' = stats
       /\ (stats = NoRow /\ response'.op = "init_db") => stats' = EventStats
       /\ stats' # stats => (stats = NoRow /\ response'.op = "init_db")
       /\ response'.op = "init_db" => stats' # NoRow]_vars

\* init_db has run on a store whose counters were 4, 3, 1: they still are.
C27_Witness ==
    /\ response.op = "init_db"
    /\ Len(rows) = 3
    /\ stats = [received |-> 4, unique_processed |-> 3,
                duplicate_dropped |-> 1]

\* ------------------------------------------ properties of Event validation
\* The timestamp texts of Timestamps that are ISO-8601 representations: a
\* date and time with the UTC designator or with an offset, a calendar date.
IsIso8601(t) ==
    t \in {"2025-12-02T10:30:00Z", "2025-12-02T10:30:00+07:00", "2025-12-02"}

AllIn(v, class) == \A i \in 1 .. Len(v.tail) : v.tail[i] \in class

WellFormed(rec) ==
    /\ rec.topic.present /\ rec.event_id.present /\ rec.timestamp.present
    /\ rec.source.present /\ rec.payload
    /\ Length(rec.topic) \in 1 .. 255 /\ AllIn(rec.topic, TopicClass)
    /\ Length(rec.event_id) \in 1 .. 255
    /\ ~ AllIn(rec.event_id, Whitespace) \/ rec.event_id.pad > 0
    /\ Length(rec.source) \in 1 .. 255
    /\ IsIso8601(rec.timestamp.text)

\* C25: Event validation accepts a record if and only if all five fields are
\* present, topic has 1 to 255 characters all in [A-Za-z0-9._-], event_id
\* has 1 to 255 characters and is not all whitespace, source has 1 to 255
\* characters and timestamp parses as ISO-8601; every other record is
\* rejected.  Violated: a topic of allowed characters followed by one newline
\* is accepted.
C25_AcceptsExactlyWellFormedRecords ==
    response.op = "validate" => (response.accepted <=> WellFormed(response.rec))

\* ------------------------------------- properties of shutdown and dispatch

\* C31: the step that releases the bus channel handle (unsubscribe, close)
\* is taken only when the pool has quiesced: every dispatched message has
\* finished, the queue is empty and no thread is inside the protocol.
C31_HandleReleasedAfterPoolQuiesced ==
    [][(subscribed /\ ~subscribed')
          => /\ finished = dispatched
             /\ queue = << >>
             /\ \A w \in Workers : pc[w] = "idle"]_vars

\* How far a call has come: the insert, the counters, the commit, the
\* error handling, the return.
Stage(p) ==
    CASE p = "idle" -> 0
      [] p = "flush" -> 1
      [] p \in {"stats", "dup_stats"} -> 2
      [] p \in {"commit", "dup_commit"} -> 3
      [] p = "error" -> 4
      [] p = "returned" -> 5

\* C32: each delivered message leads to at most one dedup attempt.  A call
\* only moves forward from its one insert attempt to its return; a call
\* begins only by taking the head of the queue; the queue only grows by the
\* one dispatch of the message just delivered; so the calls never outnumber
\* the dispatches, nor the dispatches the deliveries, whatever the outcomes.
C32_AtMostOneAttemptPerDelivery ==
    [][/\ \A w \in Workers :
             \/ pc'[w] = pc[w]
             \/ Stage(pc'[w]) > Stage(pc[w])
             \/ pc[w] = "returned" /\ pc'[w] = "idle"
       /\ \A w \in Workers :
             (pc[w] = "idle" /\ pc'[w] # "idle")
             => /\ queue # << >>
                /\ queue' = Tail(queue)
                /\ ev'[w] = EventOf(Head(queue))
                /\ calls' = calls + 1
       /\ queue' # queue =>
             \/ queue # << >> /\ queue' = Tail(queue)
             \/ /\ queue' = Append(queue, cur)
                /\ cur # NoMessage /\ cur' = NoMessage
                /\ dispatched' = dispatched + 1
                /\ delivered' = delivered
       /\ dispatched' <= delivered'
       /\ calls' + Len(queue') <= dispatched']_vars

\* A message ended in error, another was processed, every delivered message
\* has finished, and there were exactly as many calls as deliveries.
C32_Witness ==
    /\ delivered = 2 /\ dispatched = 2 /\ finished = 2
    /\ calls = 2 /\ Len(log) = 2
    /\ \E i \in 1 .. 2 : ~log[i].ok
    /\ queue = << >>
    /\ \A w \in Workers : pc[w] = "idle"

\* ------------------------------------ properties of the scoped transaction

\* C34: the step in which get_db_context is left either commits what the
\* session holds (normal exit) or leaves the committed tables as they are
\* (rollback, after which the exception is re-raised and logged); in both
\* cases the session is closed: it holds no uncommitted row, no pending
\* audit row and no row lock, and its thread is free.  So a thread that is
\* idle never has an open session.
C34_ContextCommitsOrRollsBackAndCloses ==
    [][/\ \A w \in Workers :
             (pc[w] = "returned" /\ pc'[w] = "idle")
             => /\ \/ /\ rows' = rows \o txRow[w]
                      /\ audit' = audit (+) txAudit[w]
                      /\ stats' = stats
                   \/ UNCHANGED <<rows, audit, stats>>
                /\ txRow'[w] = << >> /\ txAudit'[w] = EmptyBag
                /\ lock' # w
                /\ finished' = finished + 1
       /\ \A w \in Workers :
             pc'[w] = "idle"
             => txRow'[w] = << >> /\ txAudit'[w] = EmptyBag /\ lock' # w]_vars

\* Two duplicates were handed back: the context committed the audit row of
\* one and, its commit failing, rolled back the audit row of the other.
C34_Witness ==
    /\ Len(log) = 3
    /\ log[2].outcome = "duplicate" /\ log[3].outcome = "duplicate"
    /\ \A w \in Workers : pc[w] = "idle"
    /\ faults = 1
    /\ AuditRows(KeyOf(log[2].ev), "duplicate") = 1
    /\ finished = 3

\* ------------------------------------------- properties of worker failures

\* Messages dropped by a pool thread before any session was opened.
Rejected ==
    finished - (calls - Cardinality({w \in Workers : pc[w] # "idle"}))

\* Some message has failed in a worker.
SomeFailed == Rejected > 0 \/ faults > 0 \/ \E i \in 1 .. Len(log) : ~log[i].ok

\* The step in which a worker's message fails: it is dropped undecoded or
\* invalid, its call returns an error, or its context's commit raises.
FailureStep ==
    \/ RejectStep
    \/ Len(log') > Len(log) /\ ~log'[Len(log')].ok
    \/ faults' > faults

\* C33: a message that fails in a worker does not stop the consumer.  The
\* failing step leaves the receive loop, the running flag, the subscription
\* and the other queued messages as they are and its thread stays in the
\* pool; and after any failure a message yielded while running is still
\* dispatched and a queued message is still taken by a free thread.
C33_FailureDoesNotStopConsumer ==
    [][/\ FailureStep =>
             /\ UNCHANGED <<cpc, running, subscribed, signalled, cur,
                            delivered, dispatched>>
             /\ queue' = queue \/ (queue # << >> /\ queue' = Tail(queue))
             /\ \A w \in Workers :
                    pc'[w] # pc[w] => pc'[w] \in {"error", "returned", "idle"}
       /\ SomeFailed =>
             /\ cpc = "submit" => ENABLED executor_submit
             /\ (queue # << >> /\ \E w \in Workers : pc[w] = "idle")
                => ENABLED (\E w \in Workers :
                               process_message(w) \/ reject_message(w))]_vars

\* One message was rejected and one ended in error; a message whose call
\* began after that error was processed, and the consumer is still running
\* in its receive loop.
C33_Witness ==
    /\ delivered = 3 /\ finished = 3
    /\ Rejected = 1
    /\ Len(log) = 2
    /\ ~log[1].ok
    /\ log[2].outcome = "processed" /\ log[2].begun = 1
    /\ running /\ subscribed /\ cpc = "listen"

\* ------------------------------------------- properties of the dedup core

\* C35: in every committed state received = unique_processed +
\* duplicate_dropped, whatever the interleaving of the calls and whatever
\* calls ended in error.
C35_ReceivedIsSumOfOutcomes ==
    stats.received = stats.unique_processed + stats.duplicate_dropped

\* Two overlapping calls have returned, the first processed and the second
\* in error after its audit row was committed; one event is counted.
C35_Witness ==
    /\ Len(log) = 2
    /\ Overlap(1, 2)
    /\ log[1].outcome = "processed" /\ ~log[2].ok
    /\ AuditRows(KeyOf(log[2].ev), "error") = 1
    /\ stats.received = 1

\* C36: on a store that does not fail and under fair scheduling, every
\* call that has begun eventually returns: a call that waits for another
\* transaction's uncommitted insert of its key, or for the stats row lock,
\* is never left waiting for ever.
C36_EveryCallReturns ==
    \A w \in Workers : (pc[w] \in InProtocol) ~> (pc[w] = "returned")

\* Both kinds of waiting at once: a call waits for the uncommitted insert
\* of its key by a call that itself holds the stats row lock.
C36_Witness ==
    \E w, v \in Workers :
        /\ w # v
        /\ pc[w] = "commit" /\ lock = w
        /\ pc[v] = "flush" /\ IndexBusy(v, ProcessedEvent(ev[v]))

\* C37: every call that returned 'duplicate' presented a key of which the
\* store holds a committed row; in particular a store failure that is not
\* a violation of the (topic, event_id) unique key is never classified as
\* duplicate.
C37_DuplicateOnlyForCommittedKey ==
    \A i \in 1 .. Len(log) :
        log[i].outcome = "duplicate" => RowsOf(KeyOf(log[i].ev)) # {}

\* C38: a presentation that ends in error does not use up its key.  The
\* step that fails a call whose insert was flushed leaves the committed
\* rows as they are and removes the uncommitted insert; no key ever has a
\* committed row without a call of that key that returned 'processed'; and
\* a call that returns without error for a key that has no committed row,
\* after or while another presentation of the key ended in error, returns
\* 'processed' and stores the row.
C38_ErrorDoesNotConsumeKey ==
    [][/\ \A w \in Workers :
             (inserted[w] /\ pc[w] \in {"stats", "commit"}
                /\ pc'[w] = "error")
             => /\ rows' = rows
                /\ txRow[w] # << >> /\ txRow'[w] = << >>
       /\ \A k \in Keys :
             Cardinality(RowsOf(k))' > 0
             => Cardinality(CallsWith(k, "processed"))' > 0
       /\ \A w \in Workers :
             (/\ pc[w] # "returned" /\ pc'[w] = "returned"
              /\ log'[Len(log')].ok
              /\ \E i \in CallsOf(KeyOf(ev[w])) : ~log[i].ok
              /\ RowsOf(KeyOf(ev[w])) = {})
             => /\ outcome'[w] = "processed"
                /\ rows' = Append(rows, ProcessedEvent(ev[w]))]_vars

\* A call whose insert had been flushed has failed and rolled back and is
\* in its error handling; the other call of the same key, under way at the
\* time, has returned 'processed', and the key's only row is its row.
C38_Witness ==
    \E w, v \in Workers :
        /\ w # v
        /\ pc[w] = "error" /\ inserted[w]
        /\ calls = 2 /\ Len(log) = 1
        /\ log[1].w = v /\ log[1].outcome = "processed"
        /\ pc[v] = "returned"
        /\ KeyOf(ev[w]) = KeyOf(ev[v])
        /\ rows = <<ProcessedEvent(ev[v])>>
        /\ txRow[w] = << >>

====
